---- MODULE Spec2Model ----
(***************************************************************************)
(* FuzzyZSIC: the FuzzyZeroShotImageClassification object of               *)
(* src/ZSIC/fuzzy_zsic.py as a state machine.                              *)
(*                                                                         *)
(* Python strings are sequences of one-character strings, so that          *)
(* str.split, str.format and the iteration over a str are computed as      *)
(* Python computes them.  The template slot "{}" is the single token "{}". *)
(* The pretrained encoders and fuzz.partial_ratio are libraries outside    *)
(* the repository: an embedding is the uninterpreted term                  *)
(* [encoder, input], and partial_ratio is a fixed function into 0..100:    *)
(* the initial state chooses its value on a table of pairs, and elsewhere  *)
(* it is 100 where one string occurs in the other and 0 where not.         *)
(***************************************************************************)
EXTENDS Integers, Sequences, FiniteSets, TLC

VARIABLES
    kwargs,           \* keyword arguments the constructor is given: the keys
                      \* passed and their values
    cuda,             \* torch.cuda.is_available()
    ratio_table,      \* fuzz.partial_ratio on the pairs <<candidate, label>>
                      \* whose score the initial state chooses
    status,           \* "new", "ready" (constructed) or "init_raised"
    self_lang,        \* self.lang
    self_model,       \* self.model
    self_preprocess,  \* self.preprocess
    self_text_model,  \* self.text_model
    call,             \* arguments of the latest __call__
    frame,            \* local variables of the latest __call__ at its return
    preds,            \* value the latest __call__ returned
    raised,           \* exception the latest operation raised
    log,              \* library calls the latest operation made, in order
    prev_raised,      \* whether the __call__ before the latest one raised
    fm_args,          \* arguments of a direct fuzzy_match invocation
    fm_result         \* <<best_match, best_match_score>> it returned

vars == <<kwargs, cuda, ratio_table, status, self_lang, self_model,
          self_preprocess, self_text_model, call, frame, preds, raised, log,
          prev_raised, fm_args, fm_result>>

self_vars == <<self_lang, self_model, self_preprocess, self_text_model>>

-----------------------------------------------------------------------------
(* Bounds of the model *)

MaxStrLen == 3
MaxListLen == 2
MaxMatchLen == 3

-----------------------------------------------------------------------------
(* Python values *)

\* None; no Python string is this sequence, whose element is not a character
None == <<"None">>

\* an attribute that was never assigned
Unset == [cls |-> "unset"]

NoExc == [type |-> "none"]

Range(s) == {s[i] : i \in 1..Len(s)}

-----------------------------------------------------------------------------
(* Construction: __init__ *)

\* the codes of the literal in available_languages, split on "," and stripped
available_languages ==
    {"ar", "bg", "ca", "cs", "da", "de", "en", "el", "es", "et", "fa", "fi",
     "fr", "fr-ca", "gl", "gu", "he", "hi", "hr", "hu",
     "hy", "id", "it", "ja", "ka", "ko", "ku", "lt", "lv", "mk", "mn", "mr",
     "ms", "my", "nb", "nl", "pl", "pt", "pt", "pt-br",
     "ro", "ru", "sk", "sl", "sq", "sr", "sv", "th", "tr", "uk", "ur", "vi",
     "zh-cn", "zh-tw"}

\* clip.available_models(), the backbones the docstring lists
available_models ==
    {"RN50", "RN101", "RN50x4", "RN50x16", "RN50x64", "ViT-B/32", "ViT-B/16",
     "ViT-L/14"}

\* "cuda:0" if torch.cuda.is_available() else "cpu"
device == IF cuda THEN "cuda:0" ELSE "cpu"

\* self.lang as the constructor sets it
init_lang(kw) == IF "lang" \in kw.keys THEN kw.lang ELSE "en"

\* a check that compares the codes without regard to case
lang_valid_anycase(lang) == lang \in available_languages \cup {"EN"}

\* the language check of the constructor
lang_valid(lang) == lang \in available_languages

\* the exception of an unsupported language code
LangError(lang) ==
    [type  |-> "Exception",
     msg   |-> "Language code {} not valid, supported codes are {} ",
     code  |-> lang,
     codes |-> available_languages]

\* the models the constructor loads: the joint CLIP encoder for "en", the
\* SentenceTransformer image encoder and multilingual text encoder otherwise
load_models(lang, kw) ==
    IF lang = "en"
    THEN LET model_tag == IF "model" \in kw.keys THEN kw.model ELSE "ViT-B/32" IN
         [model      |-> [cls |-> "clip.model.CLIP", tag |-> model_tag,
                          device |-> device],
          preprocess |-> [cls |-> "Compose", tag |-> model_tag,
                          device |-> "cpu"],
          text_model |-> Unset,
          log        |-> <<"torch.cuda.is_available", "clip.load">>]
    ELSE [model      |-> [cls |-> "SentenceTransformer",
                          tag |-> "clip-ViT-B-32", device |-> device],
          preprocess |-> Unset,
          text_model |-> [cls |-> "SentenceTransformer",
                          tag |-> "sentence-transformers/clip-ViT-B-32-multilingual-v1",
                          device |-> device],
          log        |-> <<"torch.cuda.is_available", "SentenceTransformer",
                           "SentenceTransformer">>]

__init__ ==
    /\ status = "new"
    /\ LET lang == init_lang(kwargs) IN
       /\ self_lang' = lang
       /\ IF ~lang_valid(lang)
          THEN /\ raised' = LangError(lang)
               /\ status' = "init_raised"
               /\ log' = <<>>
               /\ UNCHANGED <<self_model, self_preprocess, self_text_model>>
          ELSE LET m == load_models(lang, kwargs) IN
               /\ self_model' = m.model
               /\ self_preprocess' = m.preprocess
               /\ self_text_model' = m.text_model
               /\ log' = m.log
               /\ raised' = NoExc
               /\ status' = "ready"
    /\ UNCHANGED <<kwargs, cuda, ratio_table, call, frame, preds,
                   prev_raised, fm_args, fm_result>>

-----------------------------------------------------------------------------
(* Strings *)

\* "A photo of {}"
PhotoOf == <<"A", " ", "p", "h", "o", "t", "o", " ", "o", "f", " ", "{}">>

\* "{}"
Identity == <<"{}">>

\* s.split(","): the pieces between the commas, one more than there are commas
RECURSIVE split(_)
split(s) ==
    IF \A i \in 1..Len(s) : s[i] # ","
    THEN <<s>>
    ELSE LET i == CHOOSE j \in 1..Len(s) :
                      s[j] = "," /\ \A k \in 1..(j - 1) : s[k] # ","
         IN <<SubSeq(s, 1, i - 1)>> \o split(SubSeq(s, i + 1, Len(s)))

\* template.format(x): every slot of the template replaced by x
RECURSIVE format(_, _)
format(template, x) ==
    IF template = <<>>
    THEN <<>>
    ELSE (IF Head(template) = "{}" THEN x ELSE <<Head(template)>>)
             \o format(Tail(template), x)

-----------------------------------------------------------------------------
(* Hypothesis construction: __call__, lines 150-175 *)

\* a template choice with the English default on both language paths
hypothesis_template_en(lang, kw) ==
    IF "hypothesis_template" \in kw.keys
    THEN kw.hypothesis_template
    ELSE PhotoOf

\* the template of the call: the keyword argument, or the default of the
\* language
hypothesis_template(lang, kw) ==
    IF "hypothesis_template" \in kw.keys
    THEN kw.hypothesis_template
    ELSE IF lang = "en" THEN PhotoOf ELSE Identity

\* the labels the comprehension formats: the pieces of a str, the elements of
\* a list
raw_labels(candidate_labels) ==
    IF candidate_labels.type = "str"
    THEN split(candidate_labels.value)
    ELSE candidate_labels.value

\* [template.format(candidate_label) for candidate_label in raw]
RECURSIVE format_each(_, _)
format_each(template, raw) ==
    IF raw = <<>>
    THEN <<>>
    ELSE <<format(template, Head(raw))>> \o format_each(template, Tail(raw))

\* labels: one formatted hypothesis per raw label, in order
make_labels(lang, candidate_labels, kw) ==
    format_each(hypothesis_template(lang, kw), raw_labels(candidate_labels))

\* top_k: the keyword argument, or the number of labels; nothing reads it
top_k_of(labels, kw) ==
    IF "top_k" \in kw.keys THEN kw.top_k ELSE Len(labels)

-----------------------------------------------------------------------------
(* Image acquisition: _load_image *)

NoImage == [mode |-> "none", name |-> "none", exif_transposed |-> FALSE]

\* a loader that hands an argument of any other type on as if it were decoded
\* and opens any path without asking whether the file exists
_load_image_unchecked(image) ==
    IF image.type = "str" /\ ~image.readable
          /\ (image.scheme \in {"http://", "https://"} \/ image.isfile)
    THEN [exc   |-> [type |-> "OSError", msg |-> "fetch or decoding failed",
                     value |-> image.name],
          image |-> NoImage]
    ELSE [exc   |-> NoExc,
          image |-> [mode |-> "RGB", name |-> image.name,
                     exif_transposed |-> TRUE]]

\* _load_image(image): the decoded RGB image, or the exception raised.
\* image.readable says whether the fetch and the decoding of a url or file
\* succeed.
_load_image(image) ==
    LET done == [exc   |-> NoExc,
                 image |-> [mode            |-> "RGB",
                            name            |-> image.name,
                            exif_transposed |-> TRUE]]
        transport == [exc   |-> [type  |-> "OSError",
                                 msg   |-> "fetch or decoding failed",
                                 value |-> image.name],
                      image |-> NoImage]
    IN
    IF image.type = "str"
    THEN IF image.scheme \in {"http://", "https://"}
         THEN IF image.readable THEN done ELSE transport
         ELSE IF image.isfile
              THEN IF image.readable THEN done ELSE transport
              ELSE [exc   |-> [type  |-> "ValueError",
                               msg   |-> "Incorrect path or url",
                               value |-> image.name],
                    image |-> NoImage]
    ELSE IF image.type = "PIL.Image.Image"
         THEN done
         ELSE [exc   |-> [type  |-> "ValueError",
                          msg   |-> "Incorrect format used for image",
                          value |-> image.name],
               image |-> NoImage]

-----------------------------------------------------------------------------
(* Similarity scoring: __call__, lines 177-192 *)

\* a type test that takes every loaded model for the CLIP model
is_clip_always(model) == model.cls # "unset"

\* str(type(self.model)) == "<class 'clip.model.CLIP'>"
is_clip(model) == model.cls = "clip.model.CLIP"

\* image_features: the embedding of the loaded image by self.model
image_features(model, img) ==
    [encoder |-> model, input |-> img]

\* text_features: one embedding per label, by self.model when it is the CLIP
\* model and by self.text_model otherwise
text_features(model, text_model, labels) ==
    [i \in 1..Len(labels) |->
        [encoder |-> IF is_clip(model) THEN model ELSE text_model,
         input   |-> labels[i]]]

\* scores: entry i is the softmax component of
\* 100 * cos_sim(text_features[i], image_features)
make_scores(tf, imf) ==
    [i \in 1..Len(tf) |-> [text |-> tf[i], image |-> imf]]

\* a return that keeps the first top_k scores
scores_top_k(scores, top_k) ==
    SubSeq(scores, 1, IF top_k < Len(scores) THEN top_k ELSE Len(scores))

\* the scores __call__ returns: all of them, top_k is computed and not used
scores_returned(scores, top_k) == scores

\* max(scores)
max_score(scores) == [max_of |-> Range(scores)]

-----------------------------------------------------------------------------
(* Fuzzy matching *)

\* whether the string c occurs in the string h
Contains(h, c) ==
    \E i \in 0..(Len(h) - Len(c)) : SubSeq(h, i + 1, i + Len(c)) = c

\* fuzz.partial_ratio(s1, s2): the tabled score, and off the table 100 for
\* equal strings, 0 against an empty string, 100 where the shorter string
\* occurs in the longer one and 0 elsewhere
partial_ratio(s1, s2) ==
    IF <<s1, s2>> \in DOMAIN ratio_table THEN ratio_table[<<s1, s2>>]
    ELSE IF s1 = s2 THEN 100
    ELSE IF s1 = <<>> \/ s2 = <<>> THEN 0
    ELSE IF Contains(s2, s1) \/ Contains(s1, s2) THEN 100
    ELSE 0

DefaultThreshold == 80
ConfidenceGate == 90

\* a comparison that lets a later label with an equal score take over
better_or_equal(match_score, best_match_score, threshold) ==
    match_score >= best_match_score /\ match_score >= threshold

\* match_score > best_match_score and match_score >= threshold
better(match_score, best_match_score, threshold) ==
    match_score > best_match_score /\ match_score >= threshold

\* the loop of fuzzy_match from label k on
RECURSIVE fuzzy_match_loop(_, _, _, _, _, _)
fuzzy_match_loop(candidate_label, labels, threshold, k, best_match, best_match_score) ==
    IF k > Len(labels)
    THEN <<best_match, best_match_score>>
    ELSE LET match_score == partial_ratio(candidate_label, labels[k]) IN
         IF better(match_score, best_match_score, threshold)
         THEN fuzzy_match_loop(candidate_label, labels, threshold, k + 1,
                               labels[k], match_score)
         ELSE fuzzy_match_loop(candidate_label, labels, threshold, k + 1,
                               best_match, best_match_score)

\* fuzzy_match(candidate_label, labels, threshold): <<best_match, score>>
fuzzy_match(candidate_label, labels, threshold) ==
    fuzzy_match_loop(candidate_label, labels, threshold, 1, None, 0)

\* what "for candidate_label in candidate_labels" iterates: the characters of
\* a str, the elements of a list
RECURSIVE characters(_)
characters(s) ==
    IF s = <<>> THEN <<>> ELSE <<<<Head(s)>>>> \o characters(Tail(s))

iterate(candidate_labels) ==
    IF candidate_labels.type = "str"
    THEN characters(candidate_labels.value)
    ELSE candidate_labels.value

\* match_score > highest_fuzzy_score
higher(match_score, highest_fuzzy_score) == match_score > highest_fuzzy_score

\* the fuzzy-matching loop of __call__ from item k on
RECURSIVE fuzzy_loop(_, _, _, _)
fuzzy_loop(items, labels, k, acc) ==
    IF k > Len(items)
    THEN acc
    ELSE LET m == fuzzy_match(items[k], labels, DefaultThreshold)
             fuzzy_matched_label == m[1]
             match_score == m[2]
             promote == higher(match_score, acc.highest_fuzzy_score)
         IN fuzzy_loop(items, labels, k + 1,
              [fuzzy_matched_labels |->
                   Append(acc.fuzzy_matched_labels, fuzzy_matched_label),
               match_scores |-> Append(acc.match_scores, match_score),
               highest_fuzzy_score |->
                   IF promote THEN match_score ELSE acc.highest_fuzzy_score,
               highest_fuzzy_label |->
                   IF promote THEN fuzzy_matched_label
                   ELSE acc.highest_fuzzy_label])

\* lines 195-203
fuzzy_all(items, labels) ==
    fuzzy_loop(items, labels, 1,
               [fuzzy_matched_labels |-> <<>>, match_scores |-> <<>>,
                highest_fuzzy_score |-> 0, highest_fuzzy_label |-> None])

\* a gate that reuses the per-candidate threshold
gate_at_threshold(highest_fuzzy_score, highest_fuzzy_label) ==
    IF highest_fuzzy_score < DefaultThreshold THEN None
    ELSE highest_fuzzy_label

\* lines 207-208: the confidence gate on the overall best label
gate(highest_fuzzy_score, highest_fuzzy_label) ==
    IF highest_fuzzy_score < ConfidenceGate THEN None ELSE highest_fuzzy_label

-----------------------------------------------------------------------------
(* Inference: __call__ *)

NoCall == [image |-> NoImage, candidate_labels |-> [type |-> "none"],
           kwargs |-> [keys |-> {}]]
NoFrame == [labels |-> None]
NoResult == [image |-> None]

\* the library calls of __call__ up to its return or its exception
call_log(model, image_ok, labels_ok) ==
    <<"torch.cuda.is_available", "_load_image">>
    \o (IF ~image_ok THEN <<>>
        ELSE (IF is_clip(model)
              THEN <<"preprocess", "clip.tokenize", "encode_image",
                     "encode_text">>
              ELSE <<"encode", "encode">>)
             \o (IF labels_ok THEN <<"cos_sim", "softmax", "max">> ELSE <<>>))

\* preds as __call__ builds it
make_preds(image, scores, fz) ==
    [image                |-> image,
     scores               |-> scores,
     fuzzy_matched_labels |-> fz.fuzzy_matched_labels,
     highest_fuzzy_label  |-> gate(fz.highest_fuzzy_score,
                                   fz.highest_fuzzy_label),
     highest_score        |-> max_score(scores)]

\* a call that drops the text encoder when it is done
self_after_call_dropping ==
    /\ self_text_model' = Unset
    /\ UNCHANGED <<self_lang, self_model, self_preprocess>>

\* __call__ reads self.lang, self.model, self.preprocess and self.text_model
\* and assigns none of them
self_after_call == UNCHANGED self_vars

\* exceptions an empty label list can end in
EmptyExcs == {"ValueError", "RuntimeError"}

\* One call of the object.  An empty label list ends in an exception: max()
\* of no scores at the latest, a tensor shape error of an encoder or of
\* cos_sim before it.
__call__(image, candidate_labels, kw) ==
    /\ status = "ready"
    /\ LET labels == make_labels(self_lang, candidate_labels, kw)
           top_k  == top_k_of(labels, kw)
           loaded == _load_image(image)
           imf    == image_features(self_model, loaded.image)
           tf     == text_features(self_model, self_text_model, labels)
           scores == scores_returned(make_scores(tf, imf), top_k)
           items  == iterate(candidate_labels)
       IN
       /\ call' = [image |-> image, candidate_labels |-> candidate_labels,
                   kwargs |-> kw]
       /\ prev_raised' = (call # NoCall /\ raised # NoExc)
       /\ IF loaded.exc # NoExc
          THEN /\ raised' = loaded.exc
               /\ preds' = NoResult
               /\ frame' = NoFrame
               /\ log' = call_log(self_model, FALSE, FALSE)
          ELSE IF labels = <<>>
          THEN /\ \E e \in EmptyExcs :
                      raised' = [type |-> e, msg |-> "no labels",
                                 value |-> "[]"]
               /\ preds' = NoResult
               /\ frame' = NoFrame
               /\ log' = call_log(self_model, TRUE, FALSE)
          ELSE /\ LET fz == fuzzy_all(items, labels) IN
                  /\ preds' = make_preds(image, scores, fz)
                  /\ frame' = [device |-> device,
                               hypothesis_template |->
                                   hypothesis_template(self_lang, kw),
                               labels |-> labels,
                               top_k |-> top_k,
                               match_scores |-> fz.match_scores,
                               highest_fuzzy_score |-> fz.highest_fuzzy_score]
               /\ raised' = NoExc
               /\ log' = call_log(self_model, TRUE, TRUE)
    /\ self_after_call
    /\ UNCHANGED <<kwargs, cuda, ratio_table, status, fm_args, fm_result>>

-----------------------------------------------------------------------------
(* A direct invocation of the method fuzzy_match *)

NoMatchArgs == [candidate_label |-> None, labels |-> <<>>, threshold |-> 0]
NotInvoked == <<>>

fuzzy_match_call ==
    /\ status = "ready"
    /\ fm_args # NoMatchArgs
    /\ fm_result = NotInvoked
    /\ fm_result' = fuzzy_match(fm_args.candidate_label, fm_args.labels,
                                fm_args.threshold)
    /\ UNCHANGED <<kwargs, cuda, ratio_table, status, self_vars, call, frame,
                   preds, raised, log, prev_raised, fm_args>>

-----------------------------------------------------------------------------
(* Inputs *)

SeqsUpTo(S, n) == UNION {[1..k -> S] : k \in 0..n}

Str(v) == [type |-> "str", value |-> v]
List(v) == [type |-> "list", value |-> v]

\* constructor keyword arguments: lang and model, each passed or not
CtorKwargs(langs, models) ==
    {[keys |-> {}, lang |-> "", model |-> ""]}
    \cup {[keys |-> {"lang"}, lang |-> l, model |-> ""] : l \in langs}
    \cup {[keys |-> {"model"}, lang |-> "", model |-> m] : m \in models}
    \cup {[keys |-> {"lang", "model"}, lang |-> l, model |-> m] :
              l \in langs, m \in models}

\* call keyword arguments: hypothesis_template and top_k, each passed or not
CallKwargs(templates, top_ks) ==
    {[keys |-> {}, hypothesis_template |-> <<>>, top_k |-> 0]}
    \cup {[keys |-> {"hypothesis_template"}, hypothesis_template |-> t,
           top_k |-> 0] : t \in templates}
    \cup {[keys |-> {"top_k"}, hypothesis_template |-> <<>>, top_k |-> k] :
              k \in top_ks}
    \cup {[keys |-> {"hypothesis_template", "top_k"},
           hypothesis_template |-> t, top_k |-> k] :
              t \in templates, k \in top_ks}

NoKwargs == [keys |-> {}, hypothesis_template |-> <<>>, top_k |-> 0]

\* the forms of the image argument
ImageArg(type, scheme, isfile, readable, name) ==
    [type |-> type, scheme |-> scheme, isfile |-> isfile,
     readable |-> readable, name |-> name]

UrlImage == ImageArg("str", "https://", FALSE, TRUE, "https://host/cat.png")
HttpImage == ImageArg("str", "http://", FALSE, TRUE, "http://host/cat.png")
DeadUrl == ImageArg("str", "https://", FALSE, FALSE, "https://host/gone.png")
FileImage == ImageArg("str", "", TRUE, TRUE, "cat.png")
CorruptFile == ImageArg("str", "", TRUE, FALSE, "corrupt.png")
MissingImage == ImageArg("str", "", FALSE, FALSE, "missing.png")
PilImage == ImageArg("PIL.Image.Image", "", FALSE, TRUE, "<PIL image>")
IntImage == ImageArg("int", "", FALSE, FALSE, "7")

Images == {UrlImage, HttpImage, DeadUrl, FileImage, CorruptFile, MissingImage,
           PilImage, IntImage}

\* a custom template with one slot: "{}s"
Plural == <<"{}", "s">>

-----------------------------------------------------------------------------
(* The object's life: construction with any language code, then calls with  *)
(* every form of image                                                      *)

InvalidLangs == {"xx", "EN"}

LifeCands == {Str(<<"a", ",", "b">>), List(<<<<"a">>, <<"a", "b">>>>),
              List(<<>>)}

\* the empty table
NoTable == [p \in {} |-> 0]

InitWith(kws, cudas, tables) ==
    /\ kwargs \in kws
    /\ cuda \in cudas
    /\ ratio_table \in tables
    /\ status = "new"
    /\ self_lang = "<unset>"
    /\ self_model = Unset
    /\ self_preprocess = Unset
    /\ self_text_model = Unset
    /\ call = NoCall
    /\ frame = NoFrame
    /\ preds = NoResult
    /\ raised = NoExc
    /\ log = <<>>
    /\ prev_raised = FALSE
    /\ fm_args = NoMatchArgs
    /\ fm_result = NotInvoked

Init ==
    InitWith(CtorKwargs(available_languages \cup InvalidLangs, {"RN50"}),
             BOOLEAN, {NoTable})

Next ==
    \/ __init__
    \/ \E image \in Images, c \in LifeCands :
           __call__(image, c, NoKwargs)

Spec == Init /\ [][Next]_vars

-----------------------------------------------------------------------------
(* Hypothesis construction and scoring: calls with every form of            *)
(* candidate_labels, with and without a template and top_k                  *)

ListLabels == {<<"a">>, <<"a", "b">>}

LabelCands ==
    {Str(v) : v \in SeqsUpTo({"a", ","}, MaxStrLen)}
    \cup {List(v) : v \in SeqsUpTo(ListLabels, MaxListLen)}

InitLabels == InitWith(CtorKwargs({"fr"}, {}), {FALSE}, {NoTable})

NextLabels ==
    \/ __init__
    \/ \E c \in LabelCands, kw \in CallKwargs({Plural}, {1}) :
           __call__(PilImage, c, kw)

SpecLabels == InitLabels /\ [][NextLabels]_vars

-----------------------------------------------------------------------------
(* Fuzzy aggregation: calls with lists of labels and with strings under     *)
(* every table of scores around the two thresholds                          *)

FuzzyLabels == {<<"a">>, <<"b">>}

FuzzyCands ==
    {List(v) : v \in SeqsUpTo(FuzzyLabels, MaxListLen)}
    \cup {Str(<<"b">>), Str(<<"a", ",", "b">>)}

FuzzyScores == {79, 80, 89, 90, 100}

\* the pairs whose score the table chooses: "a" with both hypotheses, "b"
\* with its own ("b" does not occur in "A photo of a")
FuzzyPairs ==
    {<<<<"a">>, format(PhotoOf, <<"a">>)>>,
     <<<<"a">>, format(PhotoOf, <<"b">>)>>,
     <<<<"b">>, format(PhotoOf, <<"b">>)>>}

FuzzyTables == [FuzzyPairs -> FuzzyScores]

InitFuzzy == InitWith(CtorKwargs({}, {}), {FALSE}, FuzzyTables)

NextFuzzy ==
    \/ __init__
    \/ \E c \in FuzzyCands : __call__(PilImage, c, NoKwargs)

SpecFuzzy == InitFuzzy /\ [][NextFuzzy]_vars

-----------------------------------------------------------------------------
(* The method fuzzy_match on its own: one invocation on a constructed       *)
(* object, for every threshold in 0..100                                    *)

MatchCandidate == <<"c">>

MatchHyps == {<<"x">>, <<"y">>}

MatchScores == {0, 79, 80, 90, 100}

Thresholds == 0..100

MatchTables == [{MatchCandidate} \X MatchHyps -> MatchScores]

InitMatch ==
    LET kw == [keys |-> {}, lang |-> "", model |-> ""] IN
    /\ kwargs = kw
    /\ cuda = FALSE
    /\ ratio_table \in MatchTables
    /\ status = "ready"
    /\ self_lang = init_lang(kw)
    /\ self_model = load_models(init_lang(kw), kw).model
    /\ self_preprocess = load_models(init_lang(kw), kw).preprocess
    /\ self_text_model = load_models(init_lang(kw), kw).text_model
    /\ call = NoCall
    /\ frame = NoFrame
    /\ preds = NoResult
    /\ raised = NoExc
    /\ log = load_models(init_lang(kw), kw).log
    /\ prev_raised = FALSE
    /\ fm_args \in [candidate_label : {MatchCandidate},
                    labels : SeqsUpTo(MatchHyps, MaxMatchLen),
                    threshold : Thresholds]
    /\ fm_result = NotInvoked

NextMatch == fuzzy_match_call

SpecMatch == InitMatch /\ [][NextMatch]_vars

-----------------------------------------------------------------------------
(* Claims checked under Spec *)

\* C7: for every supported language code construction succeeds, it selects
\* the joint CLIP encoder exactly when the language is "en" and the image
\* encoder with the multilingual text encoder otherwise, and every score a
\* later call returns was encoded through that path: image and text by the
\* joint encoder for "en", the text by the dedicated text encoder otherwise.
C7_EncoderPath ==
    LET lang == IF "lang" \in kwargs.keys THEN kwargs.lang ELSE "en" IN
    /\ (status # "new" /\ lang \in available_languages) => status = "ready"
    /\ status = "ready" =>
          /\ self_lang = lang
          /\ (self_model.cls = "clip.model.CLIP") <=> (lang = "en")
          /\ lang = "en" => self_text_model = Unset
          /\ lang # "en" =>
                /\ self_model.cls = "SentenceTransformer"
                /\ self_model.tag = "clip-ViT-B-32"
                /\ self_text_model.cls = "SentenceTransformer"
                /\ self_text_model.tag =
                       "sentence-transformers/clip-ViT-B-32-multilingual-v1"
          /\ preds # NoResult =>
                \A i \in 1..Len(preds.scores) :
                    /\ preds.scores[i].image.encoder = self_model
                    /\ preds.scores[i].text.encoder =
                           IF lang = "en" THEN self_model ELSE self_text_model

C7_Witness ==
    /\ status = "ready"
    /\ kwargs.keys = {"lang", "model"}
    /\ kwargs.lang = "zh-tw"
    /\ prev_raised
    /\ preds # NoResult
    /\ Len(preds.scores) = 2

\* C8: construction with a language code outside the supported set fails with
\* an error that names the code and lists the valid codes, and it fails
\* before the device is selected or any model is loaded.
C8_InvalidLang ==
    LET lang == IF "lang" \in kwargs.keys THEN kwargs.lang ELSE "en" IN
    (status # "new" /\ lang \notin available_languages) =>
        /\ status = "init_raised"
        /\ raised.type = "Exception"
        /\ raised.code = kwargs.lang
        /\ raised.codes = available_languages
        /\ log = <<>>
        /\ self_model = Unset
        /\ self_preprocess = Unset
        /\ self_text_model = Unset
        /\ call = NoCall

C8_Witness ==
    /\ status = "init_raised"
    /\ kwargs.lang = "EN"
    /\ raised.code = "EN"

\* C9: a call whose image is a string that neither starts with http:// or
\* https:// nor names an existing file raises the invalid-reference error with
\* the offending value, a call whose image is neither a string nor a decoded
\* image raises the invalid-type error, and in both cases nothing is encoded
\* and no result is returned.
C9_ImageErrors ==
    call # NoCall =>
        /\ (/\ call.image.type = "str"
            /\ call.image.scheme \notin {"http://", "https://"}
            /\ ~call.image.isfile) =>
               /\ raised.type = "ValueError"
               /\ raised.msg = "Incorrect path or url"
               /\ raised.value = call.image.name
               /\ preds = NoResult
               /\ log = <<"torch.cuda.is_available", "_load_image">>
        /\ call.image.type \notin {"str", "PIL.Image.Image"} =>
               /\ raised.type = "ValueError"
               /\ raised.msg = "Incorrect format used for image"
               /\ preds = NoResult
               /\ log = <<"torch.cuda.is_available", "_load_image">>

C9_Witness ==
    /\ prev_raised
    /\ call.image = MissingImage
    /\ call.candidate_labels.type = "list"
    /\ raised.type = "ValueError"
    /\ preds = NoResult

\* C10: after construction, whatever calls were made and whether they
\* returned or raised, the language code and the loaded models are the ones
\* the constructor set, so a call after a failed call runs on the state of a
\* freshly constructed object.
C10_SelfUnchanged ==
    (status = "ready" /\ call # NoCall) =>
        LET lang == IF "lang" \in kwargs.keys THEN kwargs.lang ELSE "en"
            fresh == load_models(lang, kwargs)
        IN /\ self_lang = lang
           /\ self_model = fresh.model
           /\ self_preprocess = fresh.preprocess
           /\ self_text_model = fresh.text_model

C10_Witness ==
    /\ status = "ready"
    /\ self_lang = "fr"
    /\ prev_raised
    /\ preds # NoResult

-----------------------------------------------------------------------------
(* Claims checked under SpecLabels *)

\* the pieces joined by commas
RECURSIVE JoinComma(_)
JoinComma(pieces) ==
    IF Len(pieces) = 1 THEN pieces[1]
    ELSE pieces[1] \o <<",">> \o JoinComma(Tail(pieces))

\* C4: for each form of candidate_labels, fuzzy_matched_labels has exactly one
\* entry per candidate label, as many as there are hypotheses, each entry a
\* hypothesis or None.
C4_OnePerCandidate ==
    preds # NoResult =>
        /\ Len(preds.fuzzy_matched_labels) = Len(frame.labels)
        /\ \A i \in 1..Len(preds.fuzzy_matched_labels) :
               \/ preds.fuzzy_matched_labels[i] = None
               \/ preds.fuzzy_matched_labels[i] \in Range(frame.labels)

-----------------------------------------------------------------------------
(* Claims checked under SpecFuzzy *)

SetMax(S) == CHOOSE m \in S : \A x \in S : x <= m

-----------------------------------------------------------------------------
(* Claims checked under SpecMatch *)

\* the partial ratio of the candidate with label j of the invocation
ScoreAt(j) == ratio_table[<<fm_args.candidate_label, fm_args.labels[j]>>]

\* C2: with the default threshold 80, if some hypothesis scores 80 or more,
\* fuzzy_match returns the hypothesis at the lowest position among those with
\* the maximum score, and that maximum; a later equal score does not replace
\* it.
C2_FirstMaximum ==
    (fm_result # NotInvoked /\ fm_args.threshold = 80) =>
        LET n == Len(fm_args.labels) IN
        (\E j \in 1..n : ScoreAt(j) >= 80) =>
            LET top   == SetMax({ScoreAt(j) : j \in 1..n})
                first == CHOOSE j \in 1..n :
                             /\ ScoreAt(j) = top
                             /\ \A k \in 1..(j - 1) : ScoreAt(k) # top
            IN fm_result = <<fm_args.labels[first], top>>

\* two different labels tie at 90 and the earlier one is returned
C2_Witness ==
    /\ fm_args.threshold = 80
    /\ fm_args.labels = <<<<"x">>, <<"y">>, <<"x">>>>
    /\ ratio_table[<<MatchCandidate, <<"x">>>>] = 90
    /\ ratio_table[<<MatchCandidate, <<"y">>>>] = 90
    /\ fm_result = <<<<"x">>, 90>>

\* C3: for every threshold in 0..100, fuzzy_match returns no match if and
\* only if no hypothesis scores at or above the threshold.
C3_NoneIffBelowThreshold ==
    fm_result # NotInvoked =>
        (fm_result[1] = None
            <=> \A j \in 1..Len(fm_args.labels) :
                    ScoreAt(j) < fm_args.threshold)

====
